---- MODULE Spec2Model ----
(***************************************************************************)
(* Paws OG eligibility checker: the batch runner of index.js (main and     *)
(* checkWalletEligibility), the two retry loops (withRetry of              *)
(* utils/solana.js and checkEligibilityWithRetry of utils/api.js), the     *)
(* response classification of checkPawsEligibility and the result writer   *)
(* saveResults of utils/files.js.                                          *)
(*                                                                         *)
(* JavaScript runs one callback at a time, so every action below is the    *)
(* code that runs between two suspension points (await) of one task.       *)
(* Arrays are sequences; At(a, i) reads the JavaScript index i.            *)
(***************************************************************************)
EXTENDS Integers, Sequences, FiniteSets, TLC

\* ---------------------------------------------------------------- bounds
MaxWallets == 2
MaxRetries == 1
MaxProxies == 2
\* Math.random() is drawn from {0/RandomSteps, ..., (RandomSteps-1)/RandomSteps}
RandomSteps == 3
\* the retry loops run alone are given at most this many retries
MaxHarnessRetries == 2

\* ------------------------------------------------------ JavaScript values
\* null where an object is expected (keypair, signed data)
Null == [null |-> TRUE]
\* null and undefined where a string is expected (error, body.error)
NullString == "null"
Undefined == "undefined"

Truthy(s) == s \notin {NullString, Undefined, ""}
\* a || b on strings
Or(a, b) == IF Truthy(a) THEN a ELSE b

At(a, i) == a[i + 1]
Min(a, b) == IF a <= b THEN a ELSE b

RECURSIVE Pow2(_)
Pow2(n) == IF n = 0 THEN 1 ELSE 2 * Pow2(n - 1)

RandomDraws == 0 .. (RandomSteps - 1)

\* Math.round(num / den) for num >= 0, den > 0 (halves round up)
Round(num, den) == (2 * num + den) \div (2 * den)
\* Math.floor(num / den) for num >= 0, den > 0
Floor(num, den) == num \div den

\* ------------------------------------------------------------ retry loops
\* An operation's settled promise: [thrown |-> FALSE, value |-> v] or
\* [thrown |-> TRUE, message |-> m].
Returned(v) == [thrown |-> FALSE, value |-> v]
Thrown(m) == [thrown |-> TRUE, message |-> m]

\* the backoff time without its cap
BackoffTimeUncapped(retryCount, draw, retryOptions) ==
  Round(draw * Pow2(retryCount) * retryOptions.minTimeout, RandomSteps)

\* Math.min(Math.round(Math.random() * Math.pow(2, retryCount) * minTimeout), maxTimeout)
BackoffTime(retryCount, draw, retryOptions) ==
  Min(Round(draw * Pow2(retryCount) * retryOptions.minTimeout, RandomSteps),
      retryOptions.maxTimeout)

\* withRetry giving up one attempt early (retryCount >= retries)
WithRetryOneAttemptShort(retryCount, lastError, retryOptions, settled, draw) ==
  IF ~settled.thrown
  THEN [next |-> "return", value |-> settled.value,
        retryCount |-> retryCount, lastError |-> lastError, backoffTime |-> 0]
  ELSE LET rc == retryCount + 1 IN
       IF rc >= retryOptions.retries
       THEN [next |-> "throw", value |-> Null,
             retryCount |-> rc, lastError |-> settled.message, backoffTime |-> 0]
       ELSE [next |-> "wait", value |-> Null,
             retryCount |-> rc, lastError |-> settled.message,
             backoffTime |-> BackoffTime(rc, draw, retryOptions)]

\* One turn of the while loop of withRetry, entered with the settled
\* operation: what the loop does next and the loop's variables afterwards.
WithRetry(retryCount, lastError, retryOptions, settled, draw) ==
  IF ~settled.thrown
  THEN [next |-> "return", value |-> settled.value,
        retryCount |-> retryCount, lastError |-> lastError, backoffTime |-> 0]
  ELSE LET rc == retryCount + 1 IN
       IF rc > retryOptions.retries
       THEN [next |-> "throw", value |-> Null,
             retryCount |-> rc, lastError |-> settled.message, backoffTime |-> 0]
       ELSE [next |-> "wait", value |-> Null,
             retryCount |-> rc, lastError |-> settled.message,
             backoffTime |-> BackoffTime(rc, draw, retryOptions)]

\* checkEligibilityWithRetry waiting and trying once more than allowed
\* (retryCount > retries + 1)
CheckEligibilityWithRetryExtraTurn(retryCount, lastError, retryOptions, settled, draw) ==
  IF ~settled.thrown
  THEN [next |-> "return", value |-> settled.value,
        retryCount |-> retryCount, lastError |-> lastError, backoffTime |-> 0]
  ELSE LET rc == retryCount + 1 IN
       IF rc > retryOptions.retries + 1
       THEN [next |-> "throw", value |-> Null,
             retryCount |-> rc, lastError |-> settled.message, backoffTime |-> 0]
       ELSE [next |-> "wait", value |-> Null,
             retryCount |-> rc, lastError |-> settled.message,
             backoffTime |-> BackoffTime(rc, draw, retryOptions)]

\* One turn of the while loop of checkEligibilityWithRetry.
\* checkEligibilityWithRetry with a backoff that grows linearly in the
\* number of the retry
CheckEligibilityWithRetryLinearBackoff(retryCount, lastError, retryOptions, settled, draw) ==
  IF ~settled.thrown
  THEN [next |-> "return", value |-> settled.value,
        retryCount |-> retryCount, lastError |-> lastError, backoffTime |-> 0]
  ELSE LET rc == retryCount + 1 IN
       IF rc > retryOptions.retries
       THEN [next |-> "throw", value |-> Null,
             retryCount |-> rc, lastError |-> settled.message, backoffTime |-> 0]
       ELSE [next |-> "wait", value |-> Null,
             retryCount |-> rc, lastError |-> settled.message,
             backoffTime |-> Min(Round(draw * rc * retryOptions.minTimeout,
                                       RandomSteps),
                                 retryOptions.maxTimeout)]

CheckEligibilityWithRetry(retryCount, lastError, retryOptions, settled, draw) ==
  IF ~settled.thrown
  THEN [next |-> "return", value |-> settled.value,
        retryCount |-> retryCount, lastError |-> lastError, backoffTime |-> 0]
  ELSE LET rc == retryCount + 1 IN
       IF rc > retryOptions.retries
       THEN [next |-> "throw", value |-> Null,
             retryCount |-> rc, lastError |-> settled.message, backoffTime |-> 0]
       ELSE [next |-> "wait", value |-> Null,
             retryCount |-> rc, lastError |-> settled.message,
             backoffTime |-> BackoffTime(rc, draw, retryOptions)]

\* ----------------------------------------------------------- signer
\* A private key is a line of pk.txt; bs58.decode / Keypair.fromSecretKey
\* accept it or throw, and the throw is caught and turned into null.
PublicKeyOf(privateKey) == [kind |-> "base58", line |-> privateKey.line]
UnknownPublicKey == [kind |-> "unknown", line |-> 0]
\* privateKey.substring(0, 4) + '...'
PrefixPublicKey(privateKey) == [kind |-> "prefix", line |-> privateKey.line]

\* createKeypairFromPrivateKey letting the decoder's failure escape
CreateKeypairFromPrivateKeyThrows(privateKey) ==
  IF privateKey.wellFormed
  THEN Returned([publicKey |-> PublicKeyOf(privateKey), secretKey |-> privateKey])
  ELSE Thrown("Non-base58 character")

CreateKeypairFromPrivateKey(privateKey) ==
  IF privateKey.wellFormed
  THEN Returned([publicKey |-> PublicKeyOf(privateKey), secretKey |-> privateKey])
  ELSE Returned(Null)

\* naclOk: whether nacl.sign.detached returned rather than threw
SignMessage(keypair, naclOk) ==
  IF naclOk
  THEN Returned([signature |-> [signedBy |-> keypair.secretKey.line],
                 publicKey |-> keypair.publicKey])
  ELSE Returned(Null)

\* ------------------------------------------------- eligibility client
SentinelError == "No OG drop"

\* What client.post settles with: a 2xx response, an error carrying a
\* response (any other status), an error carrying only the request (no
\* response received) or an error carrying neither (request setup).
Fulfilled(success, data, err) ==
  [type |-> "fulfilled", status |-> 200, success |-> success, data |-> data,
   error |-> err, message |-> ""]
ErrorResponse(status, err) ==
  [type |-> "error_response", status |-> status, success |-> FALSE, data |-> 0,
   error |-> err, message |-> "Request failed with status code " \o ToString(status)]
NoResponse(msg) ==
  [type |-> "no_response", status |-> 0, success |-> FALSE, data |-> 0,
   error |-> Undefined, message |-> msg]
SetupError(msg) ==
  [type |-> "setup_error", status |-> 0, success |-> FALSE, data |-> 0,
   error |-> Undefined, message |-> msg]

Responses ==
  { Fulfilled(TRUE, 100, Undefined),
    Fulfilled(FALSE, 0, Undefined),
    Fulfilled(FALSE, 0, "Invalid signature"),
    ErrorResponse(400, SentinelError),
    ErrorResponse(400, "Invalid signature"),
    ErrorResponse(500, SentinelError),
    ErrorResponse(500, Undefined),
    ErrorResponse(500, ""),
    NoResponse("timeout of 30000ms exceeded"),
    SetupError("Invalid URL") }

\* the responses the API gives during a batch run
BatchResponses ==
  { Fulfilled(TRUE, 100, Undefined),
    Fulfilled(FALSE, 0, Undefined),
    ErrorResponse(400, SentinelError),
    NoResponse("timeout of 30000ms exceeded") }

\* checkPawsEligibility raising a failure for every HTTP error status
CheckPawsEligibilityThrowsOnErrorStatus(response) ==
  IF response.type = "fulfilled"
  THEN IF response.success
       THEN Returned([eligible |-> TRUE, amount |-> response.data, error |-> NullString])
       ELSE Returned([eligible |-> FALSE, amount |-> 0,
                      error |-> Or(response.error, "Unknown error")])
  ELSE IF response.type = "error_response"
  THEN Thrown("API error: " \o ToString(response.status))
  ELSE IF response.type = "no_response"
  THEN Thrown("No response from API: " \o response.message)
  ELSE Thrown("Request error: " \o response.message)

\* checkPawsEligibility reporting the status and never the body's error
CheckPawsEligibilityStatusOnly(response) ==
  IF response.type = "fulfilled"
  THEN IF response.success
       THEN Returned([eligible |-> TRUE, amount |-> response.data, error |-> NullString])
       ELSE Returned([eligible |-> FALSE, amount |-> 0,
                      error |-> Or(response.error, "Unknown error")])
  ELSE IF response.type = "error_response"
  THEN IF response.status = 400 /\ response.error = SentinelError
       THEN Returned([eligible |-> FALSE, amount |-> 0, error |-> SentinelError])
       ELSE Returned([eligible |-> FALSE, amount |-> 0,
                      error |-> "HTTP error " \o ToString(response.status)])
  ELSE IF response.type = "no_response"
  THEN Thrown("No response from API: " \o response.message)
  ELSE Thrown("Request error: " \o response.message)

\* checkPawsEligibility returning a missing response as a result
CheckPawsEligibilityNeverThrows(response) ==
  IF response.type = "fulfilled"
  THEN IF response.success
       THEN Returned([eligible |-> TRUE, amount |-> response.data, error |-> NullString])
       ELSE Returned([eligible |-> FALSE, amount |-> 0,
                      error |-> Or(response.error, "Unknown error")])
  ELSE IF response.type = "error_response"
  THEN IF response.status = 400 /\ response.error = SentinelError
       THEN Returned([eligible |-> FALSE, amount |-> 0, error |-> SentinelError])
       ELSE Returned([eligible |-> FALSE, amount |-> 0,
                      error |-> Or(response.error,
                                   "HTTP error " \o ToString(response.status))])
  ELSE IF response.type = "no_response"
  THEN Returned([eligible |-> FALSE, amount |-> 0,
                 error |-> "No response from API: " \o response.message])
  ELSE Returned([eligible |-> FALSE, amount |-> 0,
                 error |-> "Request error: " \o response.message])

\* checkPawsEligibility taking every 2xx response for a grant
CheckPawsEligibilityAnyFulfilled(response) ==
  IF response.type = "fulfilled"
  THEN Returned([eligible |-> TRUE, amount |-> response.data, error |-> NullString])
  ELSE IF response.type = "error_response"
  THEN IF response.status = 400 /\ response.error = SentinelError
       THEN Returned([eligible |-> FALSE, amount |-> 0, error |-> SentinelError])
       ELSE Returned([eligible |-> FALSE, amount |-> 0,
                      error |-> Or(response.error,
                                   "HTTP error " \o ToString(response.status))])
  ELSE IF response.type = "no_response"
  THEN Thrown("No response from API: " \o response.message)
  ELSE Thrown("Request error: " \o response.message)

CheckPawsEligibility(response) ==
  IF response.type = "fulfilled"
  THEN IF response.success
       THEN Returned([eligible |-> TRUE, amount |-> response.data, error |-> NullString])
       ELSE Returned([eligible |-> FALSE, amount |-> 0,
                      error |-> Or(response.error, "Unknown error")])
  ELSE IF response.type = "error_response"
  THEN IF response.status = 400 /\ response.error = SentinelError
       THEN Returned([eligible |-> FALSE, amount |-> 0, error |-> SentinelError])
       ELSE Returned([eligible |-> FALSE, amount |-> 0,
                      error |-> Or(response.error,
                                   "HTTP error " \o ToString(response.status))])
  ELSE IF response.type = "no_response"
  THEN Thrown("No response from API: " \o response.message)
  ELSE Thrown("Request error: " \o response.message)

\* --------------------------------------------------------------- state
VARIABLES
  mainPc,        \* where main is: "start", "awaitAll", "save", "summary", "done", "aborted", "failed"
  files,         \* what the run reads: [configPresent, proxyLines]
  config,        \* config.json as read by readConfig
  privateKeys,   \* the lines of pk.txt
  proxies,       \* main's proxies: the lines of proxy.txt once read, else empty
  queue,         \* p-limit: indices of the tasks waiting for a slot, in submission order
  activeCount,   \* p-limit: number of tasks holding a slot
  task,          \* per wallet index: the position and locals of its task
  results,       \* the shared results array of main
  eligibleFile,  \* result/eligible.txt: [written, lines]
  notEligibleFile, \* result/noteligible.txt: [written, lines]
  logged,        \* the log lines that matter, in order
  trace,         \* history per wallet: operations invoked, requests made, waits performed
  started,       \* history: wallet indices in the order their tasks started
  harness        \* the retry loops run on a scripted operation (RetrySpec)

vars == <<mainPc, files, config, privateKeys, proxies, queue, activeCount, task,
          results, eligibleFile, notEligibleFile, logged, trace, started, harness>>

mainVars == <<mainPc, files, config, privateKeys, proxies, queue, activeCount, task,
              results, eligibleFile, notEligibleFile, logged, trace, started>>

Indices == 0 .. (Len(privateKeys) - 1)

\* ---------------------------------------------------------- inputs
RetryOptionChoices ==
  { [retries |-> r, minTimeout |-> 2, maxTimeout |-> 5] : r \in 0 .. MaxRetries }

\* concurrency 1 runs the pipelines one after the other, concurrency 2 two
\* at a time: fewer slots than wallets, as many, and more all occur
Configs ==
  { [enableProxy |-> e, concurrency |-> c, retryOptions |-> ro,
     delayBetweenAccounts |-> [min |-> 1, max |-> 2]] :
       e \in BOOLEAN, c \in {1, 2}, ro \in RetryOptionChoices }

\* pk.txt with n lines, each well formed or not
KeyLists(n) ==
  { [i \in 1 .. n |-> [line |-> i - 1, wellFormed |-> wf[i]]] : wf \in [1 .. n -> BOOLEAN] }

ProxyLists == { [i \in 1 .. p |-> [proxy |-> i - 1]] : p \in 0 .. MaxProxies }

NoProxy == [proxy |-> -1]

NoFile == [written |-> FALSE, lines |-> <<>>]

\* a task: where it is, the retry loop's variables, the pending sleep and
\* the locals of the task function and of checkWalletEligibility (the
\* duration of a pending backoff timer is not kept: nothing reads it)
IdleTask ==
  [pc |-> "queued", stage |-> "none", retryCount |-> 0, lastError |-> Undefined,
   sleepTime |-> 0, proxy |-> NoProxy, keypair |-> Null,
   signedData |-> Null, result |-> Null]

\* per wallet: how often each operation was invoked, the proxy of every
\* request made, how many requests got no response, the body.data of every
\* 2xx response with body.success = true, how many backoff waits and
\* inter-wallet sleeps were begun
NoTrace ==
  [keypairCalls |-> 0, signCalls |-> 0, requests |-> <<>>, noResponses |-> 0,
   granted |-> <<>>, backoffs |-> 0, sleeps |-> 0]

HarnessOff == [on |-> FALSE]

Init ==
  /\ mainPc = "start"
  /\ files \in [configPresent : BOOLEAN, proxyLines : ProxyLists]
  /\ config \in Configs
  \* proxy.txt is read only when proxies are enabled; when they are not it
  \* is a full list, which main must ignore
  /\ ~config.enableProxy => Len(files.proxyLines) = MaxProxies
  /\ \E n \in 0 .. MaxWallets : privateKeys \in KeyLists(n)
  /\ proxies = <<>>
  /\ queue = <<>>
  /\ activeCount = 0
  /\ task = [i \in Indices |-> IdleTask]
  /\ results = <<>>
  /\ eligibleFile = NoFile
  /\ notEligibleFile = NoFile
  /\ logged = <<>>
  /\ trace = [i \in Indices |-> NoTrace]
  /\ started = <<>>
  /\ harness = HarnessOff

\* ------------------------------------------------------------- main
\* the proxy rotated by the number of wallets finished so far instead of
\* by the wallet's index
ProxyForNextInTurn(index) ==
  IF config.enableProxy /\ Len(proxies) > 0
  THEN At(proxies, Len(results) % Len(proxies))
  ELSE NoProxy

\* index.js 143-145
ProxyFor(index) ==
  IF config.enableProxy /\ Len(proxies) > 0
  THEN At(proxies, index % Len(proxies))
  ELSE NoProxy

\* main going on to the batch without looking at the number of keys
MainStartAnyKeyCount ==
  /\ mainPc = "start"
  /\ IF ~files.configPresent
     THEN /\ mainPc' = "failed"
          /\ logged' = Append(logged, "Main process error")
          /\ UNCHANGED <<proxies, queue>>
     ELSE /\ mainPc' = "awaitAll"
          /\ logged' = logged
          /\ proxies' = IF config.enableProxy THEN files.proxyLines ELSE <<>>
          /\ queue' = [k \in 1 .. Len(privateKeys) |-> k - 1]
  /\ UNCHANGED <<files, config, privateKeys, activeCount, task, results,
                 eligibleFile, notEligibleFile, trace, started, harness>>

\* main up to `await Promise.all(tasks)`: read the configuration and the
\* key list, stop when there is no key, else read the proxies when enabled
\* and submit one task per wallet to the limiter in input order.
MainStart ==
  /\ mainPc = "start"
  /\ IF ~files.configPresent
     THEN /\ mainPc' = "failed"
          /\ logged' = Append(logged, "Main process error")
          /\ UNCHANGED <<proxies, queue>>
     ELSE IF Len(privateKeys) = 0
     THEN /\ mainPc' = "aborted"
          /\ logged' = Append(logged, "No private keys found in pk.txt")
          /\ UNCHANGED <<proxies, queue>>
     ELSE /\ mainPc' = "awaitAll"
          /\ logged' = logged
          /\ proxies' = IF config.enableProxy THEN files.proxyLines ELSE <<>>
          /\ queue' = [k \in 1 .. Len(privateKeys) |-> k - 1]
  /\ UNCHANGED <<files, config, privateKeys, activeCount, task, results,
                 eligibleFile, notEligibleFile, trace, started, harness>>

\* ------------------------------------------------------ the limiter
\* The task function of wallet `index` is called: it picks its proxy and
\* enters checkWalletEligibility, which calls createKeypairFromPrivateKey
\* inside withRetry and suspends on it.
Started(index) ==
  [IdleTask EXCEPT !.pc = "attempt", !.stage = "keypair", !.proxy = ProxyFor(index)]

\* history of the operation invoked for the stage the task is in
Invoked(tr, t) ==
  IF t.stage = "keypair" THEN [tr EXCEPT !.keypairCalls = @ + 1]
  ELSE IF t.stage = "sign" THEN [tr EXCEPT !.signCalls = @ + 1]
  ELSE [tr EXCEPT !.requests = Append(@, t.proxy)]

\* the task functions called without the limiter holding them back
StartTaskUnlimited ==
  /\ mainPc = "awaitAll"
  /\ queue # <<>>
  /\ LET index == Head(queue) IN
       /\ task' = [task EXCEPT ![index] = Started(index)]
       /\ trace' = [trace EXCEPT ![index] = Invoked(@, Started(index))]
       /\ started' = Append(started, index)
  /\ queue' = Tail(queue)
  /\ activeCount' = activeCount + 1
  /\ UNCHANGED <<mainPc, files, config, privateKeys, proxies, results,
                 eligibleFile, notEligibleFile, logged, harness>>

\* a limiter that starts the task submitted last
StartTaskLastQueued ==
  /\ mainPc = "awaitAll"
  /\ queue # <<>>
  /\ activeCount < config.concurrency
  /\ LET index == queue[Len(queue)] IN
       /\ task' = [task EXCEPT ![index] = Started(index)]
       /\ trace' = [trace EXCEPT ![index] = Invoked(@, Started(index))]
       /\ started' = Append(started, index)
  /\ queue' = SubSeq(queue, 1, Len(queue) - 1)
  /\ activeCount' = activeCount + 1
  /\ UNCHANGED <<mainPc, files, config, privateKeys, proxies, results,
                 eligibleFile, notEligibleFile, logged, harness>>

\* limit(fn) of a task that finds a free slot: p-limit starts the head of
\* its queue while activeCount < concurrency.
StartTask ==
  /\ mainPc = "awaitAll"
  /\ queue # <<>>
  /\ activeCount < config.concurrency
  /\ LET index == Head(queue) IN
       /\ task' = [task EXCEPT ![index] = Started(index)]
       /\ trace' = [trace EXCEPT ![index] = Invoked(@, Started(index))]
       /\ started' = Append(started, index)
  /\ queue' = Tail(queue)
  /\ activeCount' = activeCount + 1
  /\ UNCHANGED <<mainPc, files, config, privateKeys, proxies, results,
                 eligibleFile, notEligibleFile, logged, harness>>

\* a limiter that neither gives the slot back nor starts the next task
\* when a task function settles
ReleaseKeepsSlot(t, tr) ==
  /\ activeCount' = activeCount
  /\ queue' = queue
  /\ task' = t
  /\ trace' = tr
  /\ started' = started

\* p-limit next(): a task function settled, its slot is given back and the
\* head of the queue, if any, starts at once.  t and tr are the tasks and
\* the history with the settled task already updated.
Release(t, tr) ==
  IF queue = <<>>
  THEN /\ activeCount' = activeCount - 1
       /\ queue' = queue
       /\ task' = t
       /\ trace' = tr
       /\ started' = started
  ELSE LET index == Head(queue) IN
       /\ activeCount' = activeCount
       /\ queue' = Tail(queue)
       /\ task' = [t EXCEPT ![index] = Started(index)]
       /\ trace' = [tr EXCEPT ![index] = Invoked(@, Started(index))]
       /\ started' = Append(started, index)

\* ------------------------------------------------ the wallet pipeline
\* the catch of checkWalletEligibility logging and throwing again
CatchBlockRethrows(privateKey, message) == Thrown(message)

\* index.js 94-101: the catch of checkWalletEligibility
CatchBlock(privateKey, message) ==
  Returned([publicKey |-> PrefixPublicKey(privateKey), eligible |-> FALSE,
            error |-> message])

\* checkWalletEligibility returns result: its locals are gone
Resolved(t, result) ==
  [IdleTask EXCEPT !.pc = "record", !.proxy = t.proxy, !.result = result]

\* checkWalletEligibility rejects
Rejected(t, message) ==
  [IdleTask EXCEPT !.pc = "rejected", !.proxy = t.proxy, !.lastError = message]

\* checkWalletEligibility after one of its retry loops has taken a turn
\* with outcome r: the task record of the wallet afterwards.  pc "record"
\* is the function having returned t.result, pc "rejected" its promise
\* having rejected.
CheckWalletEligibility(privateKey, t, r) ==
  IF r.next = "wait"
  THEN [t EXCEPT !.pc = "backoff", !.retryCount = r.retryCount,
                 !.lastError = r.lastError]
  ELSE IF r.next = "throw"
  THEN LET c == CatchBlock(privateKey, r.lastError) IN
       IF c.thrown THEN Rejected(t, c.message) ELSE Resolved(t, c.value)
  ELSE IF t.stage = "keypair"
  THEN IF r.value = Null
       THEN Resolved(t, [publicKey |-> UnknownPublicKey, eligible |-> FALSE,
                         error |-> "Failed to create keypair"])
       ELSE [t EXCEPT !.pc = "attempt", !.stage = "sign", !.keypair = r.value,
                      !.retryCount = 0, !.lastError = Undefined]
  ELSE IF t.stage = "sign"
  THEN IF r.value = Null
       THEN Resolved(t, [publicKey |-> t.keypair.publicKey, eligible |-> FALSE,
                         error |-> "Failed to sign message"])
       ELSE [t EXCEPT !.pc = "attempt", !.stage = "api", !.signedData = r.value,
                      !.retryCount = 0, !.lastError = Undefined]
  ELSE Resolved(t, [publicKey |-> t.keypair.publicKey,
                    eligible |-> r.value.eligible,
                    amount |-> r.value.amount,
                    error |-> r.value.error])

\* history after that turn: a backoff wait begun or the next stage's
\* operation invoked
Traced(tr, t) ==
  IF t.pc = "backoff" THEN [tr EXCEPT !.backoffs = @ + 1]
  ELSE IF t.pc = "attempt" THEN Invoked(tr, t)
  ELSE tr

\* the state after wallet i's pipeline took the turn that left it as t
Continue(i, t, tr) ==
  IF t.pc = "rejected"
  THEN Release([task EXCEPT ![i] = t], [trace EXCEPT ![i] = tr])
  ELSE /\ task' = [task EXCEPT ![i] = t]
       /\ trace' = [trace EXCEPT ![i] = tr]
       /\ UNCHANGED <<queue, activeCount, started>>

\* Math.random() is called in the catch branch of a retry loop only: an
\* operation that returned draws nothing
DrawsAfter(settled) == IF settled.thrown THEN RandomDraws ELSE {0}

\* createKeypairFromPrivateKey or signMessage has settled inside withRetry
OperationSettles(i) ==
  /\ task[i].pc = "attempt"
  /\ task[i].stage \in {"keypair", "sign"}
  /\ \E naclOk \in (IF task[i].stage = "sign" THEN BOOLEAN ELSE {TRUE}) :
       LET privateKey == At(privateKeys, i)
           settled == IF task[i].stage = "keypair"
                      THEN CreateKeypairFromPrivateKey(privateKey)
                      ELSE SignMessage(task[i].keypair, naclOk)
       IN \E draw \in DrawsAfter(settled) :
            LET r == WithRetry(task[i].retryCount, task[i].lastError,
                               config.retryOptions, settled, draw)
                t == CheckWalletEligibility(privateKey, task[i], r)
            IN Continue(i, t, Traced(trace[i], t))
  /\ UNCHANGED <<mainPc, files, config, privateKeys, proxies, results,
                 eligibleFile, notEligibleFile, logged, harness>>

\* client.post has settled inside checkEligibilityWithRetry
ResponseArrives(i) ==
  /\ task[i].pc = "attempt"
  /\ task[i].stage = "api"
  /\ \E response \in BatchResponses :
       \E draw \in DrawsAfter(CheckPawsEligibility(response)) :
         LET privateKey == At(privateKeys, i)
             r == CheckEligibilityWithRetry(task[i].retryCount, task[i].lastError,
                                            config.retryOptions,
                                            CheckPawsEligibility(response), draw)
             t == CheckWalletEligibility(privateKey, task[i], r)
             tr == IF response.type = "no_response"
                   THEN [trace[i] EXCEPT !.noResponses = @ + 1]
                   ELSE IF response.type = "fulfilled" /\ response.success = TRUE
                   THEN [trace[i] EXCEPT !.granted = Append(@, response.data)]
                   ELSE trace[i]
         IN Continue(i, t, Traced(tr, t))
  /\ UNCHANGED <<mainPc, files, config, privateKeys, proxies, results,
                 eligibleFile, notEligibleFile, logged, harness>>

\* the backoff timer of a retry loop fires: the loop condition holds and
\* the operation is invoked again
BackoffElapses(i) ==
  /\ task[i].pc = "backoff"
  /\ LET t == [task[i] EXCEPT !.pc = "attempt"] IN
       /\ task' = [task EXCEPT ![i] = t]
       /\ trace' = [trace EXCEPT ![i] = Invoked(@, t)]
  /\ UNCHANGED <<mainPc, files, config, privateKeys, proxies, queue, activeCount,
                 results, eligibleFile, notEligibleFile, logged, started, harness>>

\* index.js 28: Math.floor(Math.random() * (max - min + 1) + min)
SleepTime(min, max, draw) == Floor(draw * (max - min + 1), RandomSteps) + min

\* the task function sleeping after every wallet, the last one included
RecordResultAlwaysSleeps(i) ==
  /\ task[i].pc = "record"
  /\ results' = Append(results, task[i].result @@ [privateKey |-> At(privateKeys, i)])
  /\ \E draw \in RandomDraws :
       LET sleepTime == SleepTime(config.delayBetweenAccounts.min,
                                  config.delayBetweenAccounts.max, draw)
       IN /\ task' = [task EXCEPT ![i] = [@ EXCEPT !.pc = "sleep",
                                                   !.sleepTime = sleepTime]]
          /\ trace' = [trace EXCEPT ![i].sleeps = @ + 1]
          /\ UNCHANGED <<queue, activeCount, started>>
  /\ UNCHANGED <<mainPc, files, config, privateKeys, proxies,
                 eligibleFile, notEligibleFile, logged, harness>>

\* the task function putting its result at the front (results.unshift)
RecordResultUnshift(i) ==
  /\ task[i].pc = "record"
  /\ results' = <<task[i].result @@ [privateKey |-> At(privateKeys, i)]>> \o results
  /\ IF i < Len(privateKeys) - 1
     THEN \E draw \in RandomDraws :
            LET sleepTime == SleepTime(config.delayBetweenAccounts.min,
                                       config.delayBetweenAccounts.max, draw)
            IN /\ task' = [task EXCEPT ![i] = [@ EXCEPT !.pc = "sleep",
                                                        !.sleepTime = sleepTime]]
               /\ trace' = [trace EXCEPT ![i].sleeps = @ + 1]
               /\ UNCHANGED <<queue, activeCount, started>>
     ELSE Release([task EXCEPT ![i] = [@ EXCEPT !.pc = "done", !.result = Null]], trace)
  /\ UNCHANGED <<mainPc, files, config, privateKeys, proxies,
                 eligibleFile, notEligibleFile, logged, harness>>

\* index.js 150-160: the task function after checkWalletEligibility
\* returned: attach the key, push, then sleep unless this is the last index
RecordResult(i) ==
  /\ task[i].pc = "record"
  /\ results' = Append(results, task[i].result @@ [privateKey |-> At(privateKeys, i)])
  /\ IF i < Len(privateKeys) - 1
     THEN \E draw \in RandomDraws :
            LET sleepTime == SleepTime(config.delayBetweenAccounts.min,
                                       config.delayBetweenAccounts.max, draw)
            IN /\ task' = [task EXCEPT ![i] = [@ EXCEPT !.pc = "sleep",
                                                        !.sleepTime = sleepTime]]
               /\ trace' = [trace EXCEPT ![i].sleeps = @ + 1]
               /\ UNCHANGED <<queue, activeCount, started>>
     ELSE Release([task EXCEPT ![i] = [@ EXCEPT !.pc = "done", !.result = Null]], trace)
  /\ UNCHANGED <<mainPc, files, config, privateKeys, proxies,
                 eligibleFile, notEligibleFile, logged, harness>>

\* the timer of randomSleep fires and the task function returns
SleepElapses(i) ==
  /\ task[i].pc = "sleep"
  /\ Release([task EXCEPT ![i] = [@ EXCEPT !.pc = "done", !.sleepTime = 0,
                                            !.result = Null]], trace)
  /\ UNCHANGED <<mainPc, files, config, privateKeys, proxies, results,
                 eligibleFile, notEligibleFile, logged, harness>>

\* ---------------------------------------------------- the end of main
\* main going on as soon as one task has settled (Promise.race)
PromiseRaceSettles ==
  /\ mainPc = "awaitAll"
  /\ \E i \in Indices : task[i].pc \in {"rejected", "done"}
  /\ IF \E i \in Indices : task[i].pc = "rejected"
     THEN /\ mainPc' = "failed"
          /\ logged' = Append(logged, "Main process error")
     ELSE /\ mainPc' = "save"
          /\ logged' = logged
  /\ UNCHANGED <<files, config, privateKeys, proxies, queue, activeCount, task,
                 results, eligibleFile, notEligibleFile, trace, started, harness>>

\* index.js 165: Promise.all resolves when every task has resolved and
\* rejects as soon as one has rejected, which lands in the catch of main
PromiseAllSettles ==
  /\ mainPc = "awaitAll"
  /\ \/ \E i \in Indices : task[i].pc = "rejected"
     \/ \A i \in Indices : task[i].pc = "done"
  /\ IF \E i \in Indices : task[i].pc = "rejected"
     THEN /\ mainPc' = "failed"
          /\ logged' = Append(logged, "Main process error")
     ELSE /\ mainPc' = "save"
          /\ logged' = logged
  /\ UNCHANGED <<files, config, privateKeys, proxies, queue, activeCount, task,
                 results, eligibleFile, notEligibleFile, trace, started, harness>>

\* files.js 98-104: filter and map
RECURSIVE Filter(_, _)
Filter(rs, eligible) ==
  IF rs = <<>> THEN <<>>
  ELSE IF Head(rs).eligible = eligible
       THEN <<Head(rs)>> \o Filter(Tail(rs), eligible)
       ELSE Filter(Tail(rs), eligible)

\* `${r.amount}` of a result that may have no amount
AmountText(r) == IF "amount" \in DOMAIN r THEN ToString(r.amount) ELSE Undefined

EligibleLine(r) ==
  [privateKey |-> r.privateKey, publicKey |-> r.publicKey, amount |-> AmountText(r)]
NotEligibleLine(r) ==
  [privateKey |-> r.privateKey, publicKey |-> r.publicKey]

\* the eligible lines put out last result first
EligibleWalletsReversed(rs) ==
  LET f == Filter(rs, TRUE)
  IN [k \in 1 .. Len(f) |-> EligibleLine(f[Len(f) + 1 - k])]

EligibleWallets(rs) ==
  LET f == Filter(rs, TRUE) IN [k \in 1 .. Len(f) |-> EligibleLine(f[k])]
\* the not-eligible lines taken from every result, unfiltered
NotEligibleWalletsUnfiltered(rs) ==
  [k \in 1 .. Len(rs) |-> NotEligibleLine(rs[k])]

NotEligibleWallets(rs) ==
  LET f == Filter(rs, FALSE) IN [k \in 1 .. Len(f) |-> NotEligibleLine(f[k])]

\* where the file system fails during saveResults, if anywhere
WriteFailures == {"none", "ensureDir", "eligible.txt", "noteligible.txt"}

\* saveResults without its catch: a file system failure reaches main's
\* catch block, which logs it and returns
SaveResultsUncaught ==
  /\ mainPc = "save"
  /\ \E failure \in WriteFailures :
       /\ eligibleFile' =
            IF failure \in {"ensureDir", "eligible.txt"} THEN eligibleFile
            ELSE [written |-> TRUE, lines |-> EligibleWallets(results)]
       /\ notEligibleFile' =
            IF failure = "none"
            THEN [written |-> TRUE, lines |-> NotEligibleWallets(results)]
            ELSE notEligibleFile
       /\ logged' = IF failure = "none" THEN logged
                    ELSE Append(logged, "Main process error")
       /\ mainPc' = IF failure = "none" THEN "summary" ELSE "failed"
  /\ UNCHANGED <<files, config, privateKeys, proxies, queue, activeCount, task,
                 results, trace, started, harness>>

\* files.js 92-126, with the failure caught and logged at 123-125
SaveResults ==
  /\ mainPc = "save"
  /\ \E failure \in WriteFailures :
       /\ eligibleFile' =
            IF failure \in {"ensureDir", "eligible.txt"} THEN eligibleFile
            ELSE [written |-> TRUE, lines |-> EligibleWallets(results)]
       /\ notEligibleFile' =
            IF failure = "none"
            THEN [written |-> TRUE, lines |-> NotEligibleWallets(results)]
            ELSE notEligibleFile
       /\ logged' = IF failure = "none" THEN logged
                    ELSE Append(logged, "Failed to save results")
  /\ mainPc' = "summary"
  /\ UNCHANGED <<files, config, privateKeys, proxies, queue, activeCount, task,
                 results, trace, started, harness>>

\* index.js 172: results.reduce((sum, r) => sum + (r.amount || 0), 0)
RECURSIVE TotalAmount(_)
TotalAmount(rs) ==
  IF rs = <<>> THEN 0
  ELSE (IF "amount" \in DOMAIN Head(rs) THEN Head(rs).amount ELSE 0)
       + TotalAmount(Tail(rs))

\* index.js 171-182
ReportSummary ==
  /\ mainPc = "summary"
  /\ LET eligibleCount == Len(Filter(results, TRUE)) IN
       logged' = logged \o
         << "Total wallets: " \o ToString(Len(results)),
            "Eligible wallets: " \o ToString(eligibleCount),
            "Not eligible: " \o ToString(Len(results) - eligibleCount),
            "Total tokens: " \o ToString(TotalAmount(results)),
            "All wallets processed successfully. Bot execution completed." >>
  /\ mainPc' = "done"
  /\ UNCHANGED <<files, config, privateKeys, proxies, queue, activeCount, task,
                 results, eligibleFile, notEligibleFile, trace, started, harness>>

Next ==
  \/ MainStart
  \/ StartTask
  \/ \E i \in Indices : OperationSettles(i)
  \/ \E i \in Indices : ResponseArrives(i)
  \/ \E i \in Indices : BackoffElapses(i)
  \/ \E i \in Indices : RecordResult(i)
  \/ \E i \in Indices : SleepElapses(i)
  \/ PromiseAllSettles
  \/ SaveResults
  \/ ReportSummary

Spec == Init /\ [][Next]_vars

\* The event loop runs every continuation that is ready, every timer set
\* by setTimeout fires, and every request settles (the client's timeout of
\* 30000 ms ends one that gets no answer): a step that can be taken is
\* eventually taken.
LiveSpec == Spec /\ WF_vars(Next)

\* ------------------------------------------- the retry loops run alone
\* Both retry loops are run on one operation whose successive settlements
\* are the classification of a sequence of API exchanges, and on one
\* sequence of Math.random() draws.  The sequences are extended by whichever
\* loop first needs the next element, so both loops see the same ones.
Loops == {"withRetry", "checkEligibilityWithRetry"}

HarnessRetryOptions ==
  { [retries |-> r, minTimeout |-> t[1], maxTimeout |-> t[2]] :
      r \in 0 .. MaxHarnessRetries, t \in {<<1, 1>>, <<2, 5>>} }

FreshLoop ==
  [pc |-> "call", retryCount |-> 0, lastError |-> Undefined, calls |-> 0,
   waits |-> <<>>, outcome |-> Null]

RetryInit ==
  /\ mainPc = "off"
  /\ files = [configPresent |-> FALSE, proxyLines |-> <<>>]
  /\ \E ro \in HarnessRetryOptions :
       /\ config = [enableProxy |-> FALSE, concurrency |-> 1, retryOptions |-> ro,
                    delayBetweenAccounts |-> [min |-> 1, max |-> 2]]
       /\ harness = [on |-> TRUE, retryOptions |-> ro, script |-> <<>>, draws |-> <<>>,
                     loop |-> [l \in Loops |-> FreshLoop]]
  /\ privateKeys = <<>>
  /\ proxies = <<>>
  /\ queue = <<>>
  /\ activeCount = 0
  /\ task = [i \in {} |-> IdleTask]
  /\ results = <<>>
  /\ eligibleFile = NoFile
  /\ notEligibleFile = NoFile
  /\ logged = <<>>
  /\ trace = [i \in {} |-> NoTrace]
  /\ started = <<>>

\* the loop l invokes the operation, the operation settles and the loop
\* takes its turn: return, throw or begin a backoff wait
HarnessAttempt(l) ==
  /\ harness.on
  /\ harness.loop[l].pc = "call"
  /\ LET me == harness.loop[l]
         n == me.calls + 1
         w == Len(me.waits) + 1
     IN \E response \in Responses, draw \in RandomDraws :
          /\ n <= Len(harness.script) => response = harness.script[n]
          /\ w <= Len(harness.draws) => draw = harness.draws[w]
          /\ LET settled == CheckPawsEligibility(response)
                 r == IF l = "withRetry"
                      THEN WithRetry(me.retryCount, me.lastError,
                                     harness.retryOptions, settled, draw)
                      ELSE CheckEligibilityWithRetry(me.retryCount, me.lastError,
                                                     harness.retryOptions, settled, draw)
                 after ==
                   [me EXCEPT
                      !.calls = n,
                      !.retryCount = r.retryCount,
                      !.lastError = r.lastError,
                      !.pc = IF r.next = "return" THEN "returned"
                             ELSE IF r.next = "throw" THEN "thrown" ELSE "wait",
                      !.waits = IF r.next = "wait" THEN Append(@, r.backoffTime) ELSE @,
                      !.outcome = IF r.next = "return" THEN Returned(r.value)
                                  ELSE IF r.next = "throw" THEN Thrown(r.lastError)
                                  ELSE @]
             IN harness' =
                  [harness EXCEPT
                     !.loop[l] = after,
                     !.script = IF n <= Len(@) THEN @ ELSE Append(@, response),
                     !.draws = IF r.next = "wait" /\ w > Len(@)
                               THEN Append(@, draw) ELSE @]
  /\ UNCHANGED mainVars

\* the backoff timer of loop l fires
HarnessBackoffElapses(l) ==
  /\ harness.on
  /\ harness.loop[l].pc = "wait"
  /\ harness' = [harness EXCEPT !.loop[l].pc = "call"]
  /\ UNCHANGED mainVars

RetryNext ==
  \/ \E l \in Loops : HarnessAttempt(l)
  \/ \E l \in Loops : HarnessBackoffElapses(l)

RetrySpec == RetryInit /\ [][RetryNext]_vars

\* ================================================================ claims
\* the entries of the results array recorded for wallet index i
EntriesOf(i) == { k \in 1 .. Len(results) : results[k].privateKey.line = i }

\* a pipeline is in progress from the call of its task function until the
\* function has settled (its inter-wallet sleep included)
InProgress(i) == task[i].pc \in {"attempt", "backoff", "record", "sleep"}

\* the message of the failure checkPawsEligibility raises on a timeout
TimeoutMessage == "No response from API: timeout of 30000ms exceeded"

\* every request of wallet i got no response and the retries are used up
Exhausted(i) ==
  /\ trace[i].noResponses = Len(trace[i].requests)
  /\ trace[i].noResponses = config.retryOptions.retries + 1

\* C1: when saveResults is invoked the results array holds exactly one
\* entry for every input wallet index and nothing else.
C1_OneOutcomePerWalletAtSave ==
  mainPc = "save" =>
    /\ Len(results) = Len(privateKeys)
    /\ \A i \in Indices : Cardinality(EntriesOf(i)) = 1

C1_Witness ==
  /\ mainPc = "save"
  /\ Len(privateKeys) >= 2
  /\ \E k, m \in 1 .. Len(results) : results[k].eligible /\ ~results[m].eligible

\* C2: in every state at most config.concurrency pipelines are in progress.
C2_AtMostConcurrencyInProgress ==
  Cardinality({ i \in Indices : InProgress(i) }) <= config.concurrency

C2_Witness ==
  /\ Cardinality({ i \in Indices : InProgress(i) }) = config.concurrency
  /\ queue # <<>>
  /\ \E i \in Indices : task[i].pc = "sleep"

\* C3: a failure raised inside a wallet's pipeline (here the transport
\* failure left when the retries are used up) becomes that wallet's entry
\* with eligible = false and the failure's message; no task ever rejects,
\* main never lands in its catch because of a wallet, no other wallet's
\* entry carries the failure, and every wallet still gets its entry.
C3_FailureIsolated ==
  /\ \A i \in Indices : task[i].pc # "rejected"
  /\ mainPc = "failed" => ~files.configPresent
  /\ \A k \in 1 .. Len(results) :
       LET i == results[k].privateKey.line IN
         /\ Exhausted(i) => /\ ~results[k].eligible
                            /\ results[k].error = TimeoutMessage
         /\ results[k].error = TimeoutMessage => Exhausted(i)
  /\ \A i \in Indices :
       task[i].pc \in {"sleep", "done"} => Cardinality(EntriesOf(i)) = 1
  /\ mainPc \in {"save", "summary", "done"} =>
       \A i \in Indices : task[i].pc = "done"

C3_Witness ==
  /\ mainPc = "save"
  /\ \E k, m \in 1 .. Len(results) :
       /\ k < m
       /\ results[k].privateKey.line < results[m].privateKey.line
       /\ Exhausted(results[k].privateKey.line)
       /\ results[k].error = TimeoutMessage
       /\ results[m].eligible

\* --- the retry loops run alone
\* the n-th invocation of the scripted operation fails
Fails(n) == CheckPawsEligibility(harness.script[n]).thrown

\* C4: with maxRetries = k a retry loop invokes the operation min(i, k+1)
\* times, i the first attempt that succeeds: every attempt before the last
\* one made has failed, a loop that returned did so with the value of its
\* last attempt, which succeeded, and a loop that threw made k+1 attempts,
\* all failed, and throws the failure of the last one.
C4_InvocationCount ==
  harness.on =>
    \A l \in Loops :
      LET me == harness.loop[l]
          k == harness.retryOptions.retries
      IN /\ me.calls <= k + 1
         /\ me.calls <= Len(harness.script)
         /\ \A n \in 1 .. (me.calls - 1) : Fails(n)
         /\ me.pc \in {"call", "wait"} => \A n \in 1 .. me.calls : Fails(n)
         /\ me.pc = "wait" => me.calls <= k
         /\ me.pc = "returned" =>
              /\ ~Fails(me.calls)
              /\ me.outcome = CheckPawsEligibility(harness.script[me.calls])
         /\ me.pc = "thrown" =>
              /\ me.calls = k + 1
              /\ Fails(me.calls)
              /\ me.outcome = CheckPawsEligibility(harness.script[me.calls])

C4_Witness ==
  /\ harness.on
  /\ harness.retryOptions.retries = 2
  /\ \A l \in Loops : /\ harness.loop[l].pc = "thrown"
                      /\ harness.loop[l].calls = 3
  /\ harness.script[2] # harness.script[3]

\* C5: with maxRetries = 0 the operation is invoked once and no backoff
\* wait is ever begun; in general a loop that threw has waited once after
\* every failed attempt but the last, and a loop that is waiting has an
\* attempt left.
C5_NoWaitAfterFinalFailure ==
  harness.on =>
    \A l \in Loops :
      LET me == harness.loop[l]
          k == harness.retryOptions.retries
      IN /\ k = 0 => /\ me.calls <= 1
                     /\ me.waits = <<>>
                     /\ me.pc # "wait"
                     /\ me.pc = "thrown" => me.calls = 1
         /\ Len(me.waits) <= k
         /\ me.pc = "thrown" => Len(me.waits) = me.calls - 1
         /\ me.pc = "wait" => Len(me.waits) = me.calls /\ me.calls <= k

C5_Witness ==
  /\ harness.on
  /\ harness.retryOptions.retries = 0
  /\ \A l \in Loops : /\ harness.loop[l].pc = "thrown"
                      /\ harness.loop[l].calls = 1
                      /\ harness.loop[l].waits = <<>>

\* C6: when the API answers 400 with body.error "No OG drop" the client
\* returns eligible = false, amount = 0, error = "No OG drop"; the retry
\* wrapper returns that value at once: the answered request is its last
\* one and no backoff wait follows it, so an answer to the first request
\* means one request and no wait.
C6_SentinelNotRetried ==
  harness.on =>
    LET me == harness.loop["checkEligibilityWithRetry"] IN
      \A n \in 1 .. me.calls :
        harness.script[n] = ErrorResponse(400, SentinelError) =>
          /\ me.pc = "returned"
          /\ me.calls = n
          /\ Len(me.waits) = n - 1
          /\ me.outcome =
               Returned([eligible |-> FALSE, amount |-> 0, error |-> "No OG drop"])

C6_Witness ==
  /\ harness.on
  /\ harness.retryOptions.retries = 2
  /\ harness.script = <<ErrorResponse(400, SentinelError)>>
  /\ harness.loop["checkEligibilityWithRetry"].pc = "returned"
  /\ harness.loop["checkEligibilityWithRetry"].calls = 1
  /\ harness.loop["checkEligibilityWithRetry"].waits = <<>>

\* an HTTP error answer that is not the 400 / "No OG drop" sentinel
OtherHttpError(response) ==
  /\ response.type = "error_response"
  /\ ~(response.status = 400 /\ response.error = SentinelError)

\* C7: when the API answers with any other HTTP error status the client
\* returns eligible = false, amount = 0 and error = body.error when the
\* body has one (a non-empty string), else "HTTP error <status>", as a
\* value: the retry wrapper returns it and never repeats the request.
C7_HttpErrorIsResult ==
  harness.on =>
    LET me == harness.loop["checkEligibilityWithRetry"] IN
      \A n \in 1 .. me.calls :
        OtherHttpError(harness.script[n]) =>
          /\ me.pc = "returned"
          /\ me.calls = n
          /\ Len(me.waits) = n - 1
          /\ ~me.outcome.thrown
          /\ me.outcome.value.eligible = FALSE
          /\ me.outcome.value.amount = 0
          /\ me.outcome.value.error =
               IF harness.script[n].error \notin {Undefined, ""}
               THEN harness.script[n].error
               ELSE IF harness.script[n].status = 400 THEN "HTTP error 400"
               ELSE "HTTP error 500"

C7_Witness ==
  /\ harness.on
  /\ harness.retryOptions.retries = 2
  /\ harness.script = <<NoResponse("timeout of 30000ms exceeded"),
                        ErrorResponse(500, Undefined)>>
  /\ harness.loop["checkEligibilityWithRetry"].pc = "returned"
  /\ harness.loop["checkEligibilityWithRetry"].calls = 2
  /\ harness.loop["checkEligibilityWithRetry"].outcome.value.error = "HTTP error 500"

\* --- the batch run again
\* the pipeline of wallet i is past its API stage
PipelineEnded(i) == task[i].pc \in {"record", "sleep", "done"}

\* saveResults ran to its end without a file system failure
WriteSucceeded ==
  /\ mainPc \in {"summary", "done"}
  /\ eligibleFile.written
  /\ notEligibleFile.written

\* C8: a wallet whose every request got no response has made exactly
\* retries + 1 requests when its pipeline ends, its outcome is
\* eligible = false with the transport failure's message, and the run goes
\* on to the result writer with an entry for every wallet; both files are
\* written (unless the file system itself fails, which is logged), the
\* wallet's line being in noteligible.txt.
C8_TimeoutsExhaustRetries ==
  \A i \in Indices :
    (PipelineEnded(i) /\ trace[i].noResponses > 0
       /\ trace[i].noResponses = Len(trace[i].requests)) =>
      /\ Len(trace[i].requests) = config.retryOptions.retries + 1
      /\ trace[i].backoffs = config.retryOptions.retries
      /\ task[i].pc = "record" =>
           /\ task[i].result.eligible = FALSE
           /\ task[i].result.error = TimeoutMessage
      /\ task[i].pc \in {"sleep", "done"} =>
           \E k \in 1 .. Len(results) :
             /\ results[k].privateKey.line = i
             /\ results[k].eligible = FALSE
             /\ results[k].error = TimeoutMessage
      /\ mainPc \in {"summary", "done"} =>
           /\ Len(results) = Len(privateKeys)
           /\ \/ WriteSucceeded /\ \E n \in 1 .. Len(notEligibleFile.lines) :
                                     notEligibleFile.lines[n].privateKey.line = i
              \/ \E n \in 1 .. Len(logged) : logged[n] = "Failed to save results"

C8_Witness ==
  /\ mainPc = "done"
  /\ WriteSucceeded
  /\ config.retryOptions.retries = 1
  /\ Len(privateKeys) >= 2
  /\ Len(trace[0].requests) = 2
  /\ trace[0].noResponses = 2
  /\ \E k \in 1 .. Len(results) : results[k].eligible

\* the proxy the input assigns to wallet index i
AssignedProxy(i) ==
  IF config.enableProxy /\ Len(files.proxyLines) > 0
  THEN files.proxyLines[(i % Len(files.proxyLines)) + 1]
  ELSE NoProxy

\* C9: every request made for the wallet at input index i, retries
\* included, goes through proxies[i mod P] when proxies are enabled and
\* P > 0 lines were read, and through no proxy otherwise, whatever the
\* order in which the pipelines ran.
C9_ProxyByIndex ==
  \A i \in Indices :
    /\ \A n \in 1 .. Len(trace[i].requests) : trace[i].requests[n] = AssignedProxy(i)
    /\ task[i].pc # "queued" => task[i].proxy = AssignedProxy(i)

C9_Witness ==
  /\ config.enableProxy
  /\ Len(files.proxyLines) = 2
  /\ Len(privateKeys) = 2
  /\ config.concurrency = 2
  /\ trace[1].requests = <<files.proxyLines[2], files.proxyLines[2]>>
  /\ trace[0].requests = <<files.proxyLines[1]>>
  /\ task[1].pc = "done"
  /\ task[0].pc = "attempt"

\* C10: after a run whose write succeeded every entry of the results array
\* has its line in eligible.txt when eligible and in noteligible.txt when
\* not, in no case in both, and the two files together hold N lines.
C10_PartitionCoversResults ==
  WriteSucceeded =>
    /\ Len(eligibleFile.lines) + Len(notEligibleFile.lines) = Len(privateKeys)
    /\ \A k \in 1 .. Len(results) :
         LET inEligible == { n \in 1 .. Len(eligibleFile.lines) :
                               eligibleFile.lines[n].privateKey = results[k].privateKey }
             inNotEligible == { n \in 1 .. Len(notEligibleFile.lines) :
                                  notEligibleFile.lines[n].privateKey = results[k].privateKey }
         IN /\ Cardinality(inEligible) = (IF results[k].eligible THEN 1 ELSE 0)
            /\ Cardinality(inNotEligible) = (IF results[k].eligible THEN 0 ELSE 1)

C10_Witness ==
  /\ WriteSucceeded
  /\ mainPc = "done"
  /\ Len(eligibleFile.lines) >= 1
  /\ Len(notEligibleFile.lines) >= 1

\* --------------------------------------------------------------- C11
\* the wallet an entry of results belongs to
WalletOf(k) == results[k].privateKey.line

\* C11: an entry of results has eligible = true only if a request of its
\* wallet got a 2xx response with body.success = true; its amount is then
\* that response's body.data and its error is null.  A wallet none of
\* whose requests was answered so has no eligible entry.
C11_EligibleOnlyOnSuccess ==
  /\ \A k \in 1 .. Len(results) :
       results[k].eligible = TRUE =>
         /\ trace[WalletOf(k)].granted # <<>>
         /\ "amount" \in DOMAIN results[k]
         /\ results[k].amount = trace[WalletOf(k)].granted[1]
         /\ results[k].error = NullString
  /\ \A i \in Indices :
       task[i].pc = "record" /\ trace[i].granted = <<>> =>
         task[i].result.eligible = FALSE

\* one wallet was granted an amount, another got success = false, an error
\* status or no response at all, and both are recorded
C11_Witness ==
  /\ Len(results) = 2
  /\ \E k \in 1 .. 2 :
       /\ results[k].eligible = TRUE
       /\ results[k].amount = 100
       /\ Len(trace[WalletOf(k)].requests) = 2
  /\ \E k \in 1 .. 2 :
       /\ results[k].eligible = FALSE
       /\ results[k].error = "Unknown error"

\* --------------------------------------------------------------- C12
\* C12: every entry of results with eligible = false has amount = 0,
\* whichever path produced it (success = false, the sentinel 400, another
\* HTTP error, a keypair failure, a signing failure, the catch block).
C12_IneligibleAmountZero ==
  \A k \in 1 .. Len(results) :
    results[k].eligible = FALSE =>
      /\ "amount" \in DOMAIN results[k]
      /\ results[k].amount = 0

\* --------------------------------------------------------------- C13
\* the outcome checkWalletEligibility returns when no keypair was made
KeypairFailure(r) ==
  /\ r.publicKey = UnknownPublicKey
  /\ r.eligible = FALSE
  /\ r.error = "Failed to create keypair"

\* C13: a wallet whose keypair derivation fails never signs and never
\* sends an eligibility request, and its outcome, returned and recorded,
\* is eligible = false, publicKey = "unknown", error = "Failed to create
\* keypair".
C13_KeypairFailureOutcome ==
  \A i \in Indices :
    ~At(privateKeys, i).wellFormed =>
      /\ trace[i].signCalls = 0
      /\ trace[i].requests = <<>>
      /\ task[i].stage \in {"none", "keypair"}
      /\ PipelineEnded(i) => trace[i].keypairCalls >= 1
      /\ task[i].pc = "record" => KeypairFailure(task[i].result)
      /\ \A k \in EntriesOf(i) : KeypairFailure(results[k])
      /\ task[i].pc \in {"sleep", "done"} => EntriesOf(i) # {}

\* a malformed key's outcome is recorded beside the outcome of a wallet
\* that did sign and send a request
C13_Witness ==
  /\ Len(results) = 2
  /\ \E i \in Indices :
       /\ ~At(privateKeys, i).wellFormed
       /\ \E k \in EntriesOf(i) : KeypairFailure(results[k])
  /\ \E j \in Indices :
       /\ trace[j].signCalls = 1
       /\ Len(trace[j].requests) >= 1

\* --------------------------------------------------------------- C14
\* C14: for a malformed private key the retry executor invokes keypair
\* derivation retries + 1 times, with a backoff wait between attempts,
\* before the failure becomes an outcome.
C14_MalformedKeyRetried ==
  \A i \in Indices :
    ~At(privateKeys, i).wellFormed /\ PipelineEnded(i) =>
      /\ trace[i].keypairCalls = config.retryOptions.retries + 1
      /\ trace[i].backoffs = config.retryOptions.retries

\* --------------------------------------------------------------- C15
\* C15: with an empty key list the run stops in main before any task is
\* submitted or started (so no keypair is derived and no request sent),
\* saveResults is never called and no output file is written, and the
\* one thing logged is the error "No private keys found in pk.txt".
C15_EmptyInputAborts ==
  files.configPresent /\ Len(privateKeys) = 0 =>
    /\ mainPc \in {"start", "aborted"}
    /\ queue = <<>>
    /\ started = <<>>
    /\ activeCount = 0
    /\ results = <<>>
    /\ ~eligibleFile.written
    /\ ~notEligibleFile.written
    /\ logged = IF mainPc = "aborted"
                THEN <<"No private keys found in pk.txt">>
                ELSE <<>>

\* main has returned on an empty key list
C15_Witness ==
  /\ files.configPresent
  /\ Len(privateKeys) = 0
  /\ mainPc = "aborted"
  /\ logged = <<"No private keys found in pk.txt">>

\* --------------------------------------------------------------- C16
\* main has loaded the configuration and at least one key and waits for
\* the tasks
SetupPassed == mainPc = "awaitAll"

\* main has logged the summary of all N outcomes, every pipeline done
SummaryReported ==
  /\ mainPc = "done"
  /\ \A i \in Indices : task[i].pc = "done"
  /\ \E n \in 1 .. Len(logged) :
       logged[n] = "Total wallets: " \o ToString(Len(privateKeys))
  /\ logged[Len(logged)] =
       "All wallets processed successfully. Bot execution completed."

\* C16: every run that gets past main's setup (configuration read, at
\* least one key) eventually reports the summary, with all pipelines
\* finished, however many wallets failed and whether or not saveResults
\* could write the files.
C16_SummaryEventuallyReported == SetupPassed ~> SummaryReported

\* the summary is reported after every wallet failed and the writing of
\* the files failed too
C16_Witness ==
  /\ SummaryReported
  /\ Len(privateKeys) = 2
  /\ \A k \in 1 .. Len(results) : results[k].error \notin {NullString, SentinelError}
  /\ \E n \in 1 .. Len(logged) : logged[n] = "Failed to save results"
  /\ ~notEligibleFile.written

\* --------------------------------------------------------------- C17
\* twice the numerator of random * 2^counter * minTimeout, the random draw
\* being draws[w] / RandomSteps and the counter of the w-th wait being w
TwiceScaled(w) ==
  2 * harness.draws[w] * Pow2(w) * harness.retryOptions.minTimeout

\* t is min(round(x), cap) for x = TwiceScaled(w) / (2 * RandomSteps):
\* below the cap t is the integer within a half of x, at the cap x is at
\* least cap - 1/2
IsCappedRound(t, w, cap) ==
  /\ t \in Nat
  /\ t <= cap
  /\ t < cap => /\ (2 * t - 1) * RandomSteps <= TwiceScaled(w)
                /\ TwiceScaled(w) < (2 * t + 1) * RandomSteps
  /\ t = cap => (2 * cap - 1) * RandomSteps <= TwiceScaled(w)

Starts(j) == task[j].pc = "queued" /\ task'[j].pc # "queued"

\* C18: pipelines start in input order: a step starts at most one wallet,
\* the one whose index is the number of wallets started so far, so wallet
\* j never starts before a wallet i < j has; and a wallet that found no
\* free slot when it was submitted (j >= concurrency) starts only when
\* pipelines that finished have freed one: at least j - concurrency + 1
\* task functions are done by the end of the step that starts it.
C18_StartsInInputOrder ==
  [][ \A j \in Indices :
        Starts(j) =>
          /\ j = Len(started)
          /\ started' = Append(started, j)
          /\ \A i \in Indices : i < j => task[i].pc # "queued"
          /\ \A i \in Indices : i > j => task'[i].pc = "queued"
          /\ j >= config.concurrency =>
                Cardinality({ i \in Indices : task'[i].pc = "done" })
                  >= j - config.concurrency + 1
    ]_vars

\* with one slot wallet 1 has started, after wallet 0 finished
C18_Witness ==
  /\ config.concurrency = 1
  /\ started = <<0, 1>>
  /\ task[0].pc = "done"
  /\ task[1].pc = "attempt"

\* --------------------------------------------------------------- C19
\* the index of the last wallet of the input list
LastIndex == Len(privateKeys) - 1

\* C19: a wallet that is not the last of the list sleeps once between the
\* recording of its outcome and the end of its task function, for a time
\* in [delayBetweenAccounts.min, delayBetweenAccounts.max], and holds its
\* slot while it sleeps; the wallet at index N - 1 never sleeps, in
\* whatever order the wallets complete.
C19_SleepUnlessLast ==
  /\ activeCount = Cardinality({ i \in Indices : InProgress(i) })
  /\ \A i \in Indices :
       /\ task[i].pc = "sleep" =>
            /\ i < LastIndex
            /\ Cardinality(EntriesOf(i)) = 1
            /\ task[i].sleepTime >= config.delayBetweenAccounts.min
            /\ task[i].sleepTime <= config.delayBetweenAccounts.max
       /\ trace[i].sleeps =
            IF i < LastIndex /\ task[i].pc \in {"sleep", "done"} THEN 1 ELSE 0

\* the last wallet completed first and is done without a sleep, while an
\* earlier wallet, recorded after it, sleeps for the longest time
C19_Witness ==
  /\ Len(privateKeys) = 2
  /\ Len(results) = 2
  /\ WalletOf(1) = 1
  /\ task[1].pc = "done"
  /\ trace[1].sleeps = 0
  /\ task[0].pc = "sleep"
  /\ task[0].sleepTime = config.delayBetweenAccounts.max

\* --------------------------------------------------------------- C20
\* C20: results is append-only: every step leaves it as it is or adds one
\* entry at its end, the outcome of a wallet whose pipeline had returned
\* and was not yet recorded; no step removes, moves or changes an entry
\* already there, of whatever wallet.
C20_ResultsAppendOnly ==
  [][ \/ results' = results
      \/ /\ Len(results') = Len(results) + 1
         /\ SubSeq(results', 1, Len(results)) = results
         /\ \E i \in Indices :
              /\ task[i].pc = "record"
              /\ task'[i].pc \in {"sleep", "done"}
              /\ results'[Len(results')].privateKey = At(privateKeys, i)
    ]_vars

\* a second entry was appended while the wallet of the first still runs
C20_Witness ==
  /\ Len(results) = 2
  /\ WalletOf(1) # WalletOf(2)
  /\ task[WalletOf(1)].pc = "sleep"
  /\ task[WalletOf(2)].pc = "done"

\* --------------------------------------------------------------- C21
\* the place in results of the outcome a line of a file was made from
RecordedAt(line) ==
  CHOOSE k \in 1 .. Len(results) : results[k].privateKey = line.privateKey

\* the lines of a file follow the order in which results was filled
InRecordingOrder(file) ==
  \A a, b \in 1 .. Len(file.lines) :
    /\ \E k \in 1 .. Len(results) : results[k].privateKey = file.lines[a].privateKey
    /\ a < b => RecordedAt(file.lines[a]) < RecordedAt(file.lines[b])

\* C21: in eligible.txt and in noteligible.txt the lines come in the order
\* in which the outcomes of their wallets were recorded: of two outcomes in
\* one file the one pushed to results earlier is on the earlier line,
\* whatever the input order of their wallets.
C21_LinesInCompletionOrder ==
  /\ eligibleFile.written => InRecordingOrder(eligibleFile)
  /\ notEligibleFile.written => InRecordingOrder(notEligibleFile)

\* both wallets are eligible, the second of the input completed first and
\* is on the first line of eligible.txt
C21_Witness ==
  /\ eligibleFile.written
  /\ Len(eligibleFile.lines) = 2
  /\ eligibleFile.lines[1].privateKey.line = 1
  /\ eligibleFile.lines[2].privateKey.line = 0
  /\ WalletOf(1) = 1

\* --------------------------------------------------------------- C22
\* every pipeline has finished and recorded its outcome, and saveResults
\* has run: both files are written, or the file system failed and the
\* failure was logged
ResultsWritten ==
  /\ mainPc \in {"summary", "done"}
  /\ \A i \in Indices : task[i].pc = "done" /\ Cardinality(EntriesOf(i)) = 1
  /\ queue = <<>>
  /\ activeCount = 0
  /\ \/ eligibleFile.written /\ notEligibleFile.written
     \/ \E n \in 1 .. Len(logged) : logged[n] = "Failed to save results"

\* C22: when every step that can be taken is eventually taken (requests
\* settle, timers fire), every run with at least one wallet reaches the
\* state in which all N pipelines have finished and saveResults has
\* written the results: no wallet stays in the limiter's queue forever and
\* no retry loop goes on forever.
C22_RunTerminates == (mainPc = "awaitAll") ~> ResultsWritten

\* the results are written after a wallet had to wait for the one slot
\* and a retry loop used up its retries on requests that got no answer
C22_Witness ==
  /\ ResultsWritten
  /\ eligibleFile.written
  /\ notEligibleFile.written
  /\ config.concurrency = 1
  /\ Len(privateKeys) = 2
  /\ config.retryOptions.retries >= 1
  /\ \E i \in Indices : Exhausted(i) /\ trace[i].backoffs = config.retryOptions.retries

\* --------------------------------------------------------------- C23
\* the loop has returned or thrown
Ended(loop) == loop.pc \in {"returned", "thrown"}

\* C23: run with the same retry options on the same sequence of
\* settlements of the operation and the same random draws, withRetry and
\* checkEligibilityWithRetry do the same: after the same number of
\* invocations they are at the same point with the same retryCount and
\* lastError, the waits of one are the first waits of the other, and once
\* both have ended they have made the same number of invocations and the
\* same sequence of backoff waits and have returned the same value or
\* thrown the same failure.
C23_RetryLoopsAgree ==
  harness.on =>
    LET a == harness.loop["withRetry"]
        b == harness.loop["checkEligibilityWithRetry"]
    IN /\ \A w \in 1 .. Min(Len(a.waits), Len(b.waits)) : a.waits[w] = b.waits[w]
       /\ a.calls = b.calls /\ a.pc # "call" /\ b.pc # "call" =>
            /\ a.pc = b.pc
            /\ a.retryCount = b.retryCount
            /\ a.lastError = b.lastError
            /\ a.waits = b.waits
       /\ Ended(a) /\ Ended(b) =>
            /\ a.calls = b.calls
            /\ a.waits = b.waits
            /\ a.pc = b.pc
            /\ a.outcome = b.outcome

\* both loops have ended after three invocations and two waits, the first
\* of them longer than zero
C23_Witness ==
  /\ harness.on
  /\ \A l \in Loops :
       /\ Ended(harness.loop[l])
       /\ harness.loop[l].calls = 3
       /\ Len(harness.loop[l].waits) = 2
       /\ harness.loop[l].waits[1] > 0
  /\ harness.loop["withRetry"].pc = "returned"

====
